---- MODULE Spec2Model ----
(***************************************************************************)
(* Model of DanhMuc_GHPages/fetch_prices.py: one run of main().            *)
(*                                                                         *)
(* The run resolves the symbol list (load_stock_list), reads the previous  *)
(* prices.json, fetches the industry map, fetches one price per symbol     *)
(* with a pacing delay, merges with the previous snapshot and overwrites   *)
(* prices.json.  External collaborators (Supabase, vnstock, the file       *)
(* system) are nondeterministic choices over their possible answers.       *)
(***************************************************************************)
EXTENDS Integers, Sequences, FiniteSets, TLC

\* ------------------------------------------------------------------ bounds
MaxSymbols == 2      \* longest stocks.json list / portfolios row list explored
MaxK == 2            \* most consecutive rate-limit errors the upstream reports
MaxRetries == 2      \* largest retry bound M the retry rule is evaluated for
OldPrice == 500      \* the price the old snapshots of the model hold

\* ------------------------------------------------------- program constants
PriceScale == 1000   \* raw_price * 1000
ExitFailure == 1     \* sys.exit(1)

\* ------------------------------------------------------------ input values
JNull == "<null>"                         \* a JSON null / Python None cell
JNumber == "<number>"                     \* a non-string cell (no .upper())
RawSymbols == {"aaa", "AAA", "BBB"}       \* ticker strings as stored
RowValues == RawSymbols \cup {"", JNull, JNumber}
RawPrices == {12, 13}                     \* df["close"].iloc[-1], thousand VND
OldIndustry == "Steel"                    \* an industry kept in the old snapshot
NewIndustry == "Bank"                     \* an industry the listing reports
Tickers == {"AAA", "BBB"}                 \* keys found in old snapshots
Listed == {"AAA"}                         \* symbols the industry listing covers

\* ---------------------------------------------------------------- helpers
Range(q) == {q[k] : k \in DOMAIN q}

SeqsUpTo(S, n) == UNION {[1..k -> S] : k \in 0..n}

EmptyMap == [x \in {} |-> 0]

\* dict[k] = v
Put(m, k, v) == [x \in (DOMAIN m) \cup {k} |-> IF x = k THEN v ELSE m[x]]

\* str.upper() on the ticker strings of the model
Upper(s) == CASE s = "aaa" -> "AAA"
              [] s = "bbb" -> "BBB"
              [] OTHER -> s

\* truthiness of row.get("ma_cp")
Truthy(v) == v \notin {"", JNull}

\* list(set): the elements of a set in some iteration order
Orders(S) == {q \in [1..Cardinality(S) -> S] : \A a, b \in DOMAIN q : a # b => q[a] # q[b]}

\* -------------------------------------------------------- JSON field values
\* a value found under "prices" / "industries" of an old snapshot
JMap(m) == [kind |-> "map", m |-> m, elems |-> {}]
JList(S) == [kind |-> "list", m |-> EmptyMap, elems |-> S]
JNullValue == [kind |-> "null", m |-> EmptyMap, elems |-> {}]

\* an "object" whose key is missing is written kind = "missing"
JMissing == [kind |-> "missing", m |-> EmptyMap, elems |-> {}]

\* the values tried under one key: no key, null, a list, a map of one or of all tickers
FieldValues(v) == {JMissing, JNullValue, JList({"AAA"}),
                   JMap([x \in {"AAA"} |-> v]), JMap([x \in Tickers |-> v])}

\* `sym in v` raises TypeError (None is not iterable)
py_in_raises(v) == v.kind = "null"

\* `sym in v` for a dict (key test) or a list (element test)
py_in(sym, v) == IF v.kind = "map" THEN sym \in DOMAIN v.m ELSE sym \in v.elems

\* `v[sym]` raises TypeError unless v is a dict (list indices must be integers)
py_getitem_raises(v) == v.kind # "map"

\* ------------------------------------------------------------ file contents
NoFile == [kind |-> "absent", prices |-> JNullValue, industries |-> JNullValue,
           total_symbols |-> 0, updated_at |-> ""]
EmptyFile == [NoFile EXCEPT !.kind = "empty"]
PartialFile == [NoFile EXCEPT !.kind = "partial"]
GarbageFile == [NoFile EXCEPT !.kind = "notjson"]
NonObjectFile == [NoFile EXCEPT !.kind = "nonobject"]

ObjectFile(p, ind, n, t) == [kind |-> "object", prices |-> p, industries |-> ind,
                             total_symbols |-> n, updated_at |-> t]

OldFiles == {NoFile, EmptyFile, PartialFile, GarbageFile, NonObjectFile}
            \cup {ObjectFile(p, ind, IF p.kind = "map" THEN Cardinality(DOMAIN p.m) ELSE 0, "prev") :
                    p \in FieldValues(OldPrice), ind \in FieldValues(OldIndustry)}

\* old_data.get(key, {})
dict_get(v) == IF v.kind = "missing" THEN JMap(EmptyMap) ELSE v

VARIABLES pc, raised, exitStatus, symbols, file, file0,
          old_prices, old_industries, industry_failed, all_industries, industries,
          prices, success, i, events, fetchLog, upstream, lastFetch

vars == <<pc, raised, exitStatus, symbols, file, file0,
          old_prices, old_industries, industry_failed, all_industries, industries,
          prices, success, i, events, fetchLog, upstream, lastFetch>>

NoUpstream == [K |-> 0, final |-> "none", raw |-> 0]

NoFetch == [sym |-> "", K |-> 0, final |-> "none", ok |-> FALSE, price |-> 0,
            calls |-> 0, sleeps |-> 0]

Init ==
    /\ pc = "load"
    /\ raised = ""
    /\ exitStatus = -1
    /\ symbols = <<>>
    /\ file \in OldFiles
    /\ file0 = file
    /\ old_prices = JMap(EmptyMap)
    /\ old_industries = JMap(EmptyMap)
    /\ industry_failed = FALSE
    /\ all_industries = EmptyMap
    /\ industries = EmptyMap
    /\ prices = EmptyMap
    /\ success = 0
    /\ i = 0
    /\ events = <<>>
    /\ fetchLog = <<>>
    /\ upstream = NoUpstream
    /\ lastFetch = NoFetch

\* an exception that nothing catches: traceback, exit status 1
Crash(where) ==
    /\ pc' = "crashed"
    /\ raised' = where
    /\ exitStatus' = 1

\* ------------------------------------------------------- load_stock_list()
\* stocks.json as found next to the script
StocksFiles ==
    {[kind |-> k, symbols |-> <<>>] : k \in {"absent", "notjson", "nonobject", "nokey"}}
    \cup {[kind |-> "symbols", symbols |-> q] : q \in SeqsUpTo(RawSymbols, MaxSymbols)}

\* answer of supabase.table("portfolios").select("ma_cp").execute()
HostedResponses ==
    {[kind |-> "error", rows |-> <<>>]}
    \cup {[kind |-> "rows", rows |-> q] : q \in SeqsUpTo(RowValues, MaxSymbols)}

\* the fallback branch: json.load(f).get("symbols", []) returned as it is
load_static(stocks) ==
    CASE stocks.kind = "absent" -> [raised |-> "", symbols |-> <<>>]
      [] stocks.kind = "notjson" -> [raised |-> "stocks.json:JSONDecodeError", symbols |-> <<>>]
      [] stocks.kind = "nonobject" -> [raised |-> "stocks.json:AttributeError", symbols |-> <<>>]
      [] stocks.kind = "nokey" -> [raised |-> "", symbols |-> <<>>]
      [] OTHER -> [raised |-> "", symbols |-> stocks.symbols]

\* the try branch: the set of uppercased non-empty ma_cp cells; any exception gives []
hosted_set(resp) ==
    IF resp.kind = "error" \/ (\E k \in DOMAIN resp.rows : resp.rows[k] = JNumber)
    THEN {}
    ELSE {Upper(resp.rows[k]) : k \in {j \in DOMAIN resp.rows : Truthy(resp.rows[j])}}

load_hosted(resp) == Orders(hosted_set(resp))

LoadStockList ==
    /\ pc = "load"
    /\ \E configured \in BOOLEAN :
         IF ~configured
         THEN \E stocks \in StocksFiles :
                LET r == load_static(stocks) IN
                  IF r.raised # ""
                  THEN Crash(r.raised) /\ UNCHANGED symbols
                  ELSE /\ symbols' = r.symbols
                       /\ pc' = "check"
                       /\ UNCHANGED <<raised, exitStatus>>
         ELSE \E resp \in HostedResponses : \E q \in load_hosted(resp) :
                /\ symbols' = q
                /\ pc' = "check"
                /\ UNCHANGED <<raised, exitStatus>>
    /\ UNCHANGED <<file, file0, old_prices, old_industries, industry_failed, all_industries,
                   industries, prices, success, i, events, fetchLog, upstream, lastFetch>>

\* the emptiness test left out
IsEmpty_never(q) == FALSE

\* `not symbols`
IsEmpty(q) == Len(q) = 0

\* main(): if not symbols: sys.exit(1)
CheckSymbols ==
    /\ pc = "check"
    /\ IF IsEmpty(symbols)
       THEN /\ pc' = "exited"
            /\ exitStatus' = ExitFailure
       ELSE /\ pc' = "readold"
            /\ UNCHANGED exitStatus
    /\ UNCHANGED <<raised, symbols, file, file0, old_prices, old_industries,
                   industry_failed, all_industries, industries, prices, success, i, events,
                   fetchLog, upstream, lastFetch>>

\* ------------------------------------------------- reading the old snapshot
\* the try/except around json.load and the two .get calls
read_old(f) ==
    IF f.kind = "object"
    THEN [prices |-> dict_get(f.prices), industries |-> dict_get(f.industries)]
    ELSE [prices |-> JMap(EmptyMap), industries |-> JMap(EmptyMap)]

ReadOldSnapshot ==
    /\ pc = "readold"
    /\ old_prices' = read_old(file).prices
    /\ old_industries' = read_old(file).industries
    /\ pc' = "industry"
    /\ UNCHANGED <<raised, exitStatus, symbols, file, file0, industry_failed,
                   all_industries, industries, prices, success, i, events, fetchLog, upstream, lastFetch>>

\* ---------------------------------------------------- fetch_industry_map()
IndustryResponses ==
    {[kind |-> k, rows |-> <<>>] : k \in {"raise", "none", "empty"}}
    \cup {[kind |-> "df", rows |-> q] :
            q \in SeqsUpTo(Listed \X {NewIndustry}, MaxSymbols) \ {<<>>}}

\* dict(zip(df["symbol"], df["industry_name"])): a later row replaces an earlier one
RECURSIVE dict_zip(_, _)
dict_zip(rows, acc) ==
    IF rows = <<>> THEN acc
    ELSE dict_zip(Tail(rows), Put(acc, Head(rows)[1], Head(rows)[2]))

fetch_industry_map(resp) ==
    IF resp.kind = "df" THEN dict_zip(resp.rows, EmptyMap) ELSE EmptyMap

\* the loop with the two branches swapped: the old industry wins over the fresh one
RECURSIVE industry_loop_oldfirst(_, _, _, _)
industry_loop_oldfirst(syms, all, old, acc) ==
    IF syms = <<>> THEN [raised |-> "", m |-> acc]
    ELSE LET sym == Head(syms) IN
         IF old.kind = "map" /\ sym \in DOMAIN old.m
         THEN industry_loop_oldfirst(Tail(syms), all, old, Put(acc, sym, old.m[sym]))
         ELSE IF sym \in DOMAIN all
         THEN industry_loop_oldfirst(Tail(syms), all, old, Put(acc, sym, all[sym]))
         ELSE industry_loop_oldfirst(Tail(syms), all, old, acc)

\* the loop `for sym in symbols` that fills industries
RECURSIVE industry_loop(_, _, _, _)
industry_loop(syms, all, old, acc) ==
    IF syms = <<>> THEN [raised |-> "", m |-> acc]
    ELSE LET sym == Head(syms) IN
         IF sym \in DOMAIN all
         THEN industry_loop(Tail(syms), all, old, Put(acc, sym, all[sym]))
         ELSE IF py_in_raises(old)
         THEN [raised |-> "old_industries:TypeError", m |-> acc]
         ELSE IF py_in(sym, old)
         THEN IF py_getitem_raises(old)
              THEN [raised |-> "old_industries:TypeError", m |-> acc]
              ELSE industry_loop(Tail(syms), all, old, Put(acc, sym, old.m[sym]))
         ELSE industry_loop(Tail(syms), all, old, acc)

IndustryStep ==
    /\ pc = "industry"
    /\ \E resp \in IndustryResponses :
         LET all == fetch_industry_map(resp)
             r == industry_loop(symbols, all, old_industries, EmptyMap)
         IN /\ industry_failed' = (resp.kind = "raise")
            /\ all_industries' = all
            /\ industries' = r.m
            /\ IF r.raised # ""
               THEN Crash(r.raised)
               ELSE /\ pc' = IF Len(symbols) = 0 THEN "output" ELSE "fetch"
                    /\ UNCHANGED <<raised, exitStatus>>
    /\ UNCHANGED <<symbols, file, file0, old_prices, old_industries, prices, success,
                   i, events, fetchLog, upstream, lastFetch>>

\* ------------------------------------------------------------ fetch_price()
\* the upstream quote service seen by one fetch_price call: it reports a
\* rate-limit error K times, and from then on answers `final`
Upstreams == [K : 0..MaxK, final : {"ok", "empty", "error"}, raw : RawPrices]

\* answer of the n-th quote.history() call
Response(up, n) == IF n <= up.K THEN "ratelimit" ELSE up.final

\* a fetch_price that sleeps and calls again once after a rate-limit error
fetch_price_retry(symbol, up) ==
    LET n == IF Response(up, 1) = "ratelimit" THEN 2 ELSE 1 IN
    IF Response(up, n) = "ok"
    THEN [sym |-> symbol, K |-> up.K, final |-> up.final, ok |-> TRUE,
          price |-> up.raw * PriceScale, calls |-> n, sleeps |-> n - 1]
    ELSE [sym |-> symbol, K |-> up.K, final |-> up.final, ok |-> FALSE,
          price |-> 0, calls |-> n, sleeps |-> n - 1]

\* one quote.history() call inside try/except; every exception gives (symbol, None)
fetch_price(symbol, up) ==
    IF Response(up, 1) = "ok"
    THEN [sym |-> symbol, K |-> up.K, final |-> up.final, ok |-> TRUE,
          price |-> up.raw * PriceScale, calls |-> 1, sleeps |-> 0]
    ELSE [sym |-> symbol, K |-> up.K, final |-> up.final, ok |-> FALSE,
          price |-> 0, calls |-> 1, sleeps |-> 0]

\* the if / elif / else on the fetched price inside the loop
merge_price(sym, r, old, acc) ==
    IF r.ok THEN [raised |-> "", m |-> Put(acc, sym, r.price)]
    ELSE IF py_in_raises(old) THEN [raised |-> "old_prices:TypeError", m |-> acc]
    ELSE IF py_in(sym, old)
    THEN IF py_getitem_raises(old)
         THEN [raised |-> "old_prices:TypeError", m |-> acc]
         ELSE [raised |-> "", m |-> Put(acc, sym, old.m[sym])]
    ELSE [raised |-> "", m |-> acc]

\* a delay after every fetch, the last one included
NeedDelay_always(idx, n) == idx < n

\* `if i < len(symbols) - 1` (i counts from 0)
NeedDelay(idx, n) == idx < n - 1

\* one iteration of `for i, sym in enumerate(symbols)` up to the delay
FetchStep ==
    /\ pc = "fetch"
    /\ i < Len(symbols)
    /\ \E up \in Upstreams :
         LET sym == symbols[i + 1]
             r == fetch_price(sym, up)
             mg == merge_price(sym, r, old_prices, prices)
         IN /\ fetchLog' = Append(fetchLog, [sym |-> sym, ok |-> r.ok, price |-> r.price])
            /\ events' = Append(events, "fetch")
            /\ prices' = mg.m
            /\ success' = IF r.ok THEN success + 1 ELSE success
            /\ IF mg.raised # ""
               THEN Crash(mg.raised) /\ UNCHANGED i
               ELSE /\ UNCHANGED <<raised, exitStatus>>
                    /\ IF NeedDelay(i, Len(symbols))
                       THEN pc' = "sleep" /\ UNCHANGED i
                       ELSE /\ i' = i + 1
                            /\ pc' = IF i + 1 < Len(symbols) THEN "fetch" ELSE "output"
    /\ UNCHANGED <<symbols, file, file0, old_prices, old_industries, industry_failed,
                   all_industries, industries, upstream, lastFetch>>

\* time.sleep(1), then the next iteration
Sleep ==
    /\ pc = "sleep"
    /\ events' = Append(events, "sleep")
    /\ i' = i + 1
    /\ pc' = IF i + 1 < Len(symbols) THEN "fetch" ELSE "output"
    /\ UNCHANGED <<raised, exitStatus, symbols, file, file0, old_prices, old_industries,
                   industry_failed, all_industries, industries, prices, success, fetchLog,
                   upstream, lastFetch>>

\* ------------------------------------------------------- writing prices.json
\* the output dict as json.dump writes it
Snapshot(p, ind) == ObjectFile(JMap(p), JMap(ind), Cardinality(DOMAIN p), "now")

\* open(OUTPUT_FILE, "w"): the file is truncated when the open succeeds
OpenOutput ==
    /\ pc = "output"
    /\ \/ /\ file' = EmptyFile
          /\ pc' = "dump"
          /\ UNCHANGED <<raised, exitStatus>>
       \/ /\ Crash("open:OSError")
          /\ UNCHANGED file
    /\ UNCHANGED <<symbols, file0, old_prices, old_industries, industry_failed,
                   all_industries, industries, prices, success, i, events, fetchLog, upstream, lastFetch>>

\* json.dump(output, f): all of the document, or an error or a kill part of the way
DumpOutput ==
    /\ pc = "dump"
    /\ \/ /\ file' = Snapshot(prices, industries)
          /\ pc' = "done"
          /\ exitStatus' = 0
          /\ UNCHANGED raised
       \/ /\ file' \in {EmptyFile, PartialFile}
          /\ Crash("dump:interrupted")
    /\ UNCHANGED <<symbols, file0, old_prices, old_industries, industry_failed,
                   all_industries, industries, prices, success, i, events, fetchLog, upstream, lastFetch>>

Next ==
    \/ LoadStockList
    \/ CheckSymbols
    \/ ReadOldSnapshot
    \/ IndustryStep
    \/ FetchStep
    \/ Sleep
    \/ OpenOutput
    \/ DumpOutput

Spec == Init /\ [][Next]_vars

\* ------------------------------------------- fetch_price() against a stub
\* fetch_price called on its own: the symbol and the stub's behaviour are the inputs
InitFetch ==
    /\ pc = "stub"
    /\ raised = ""
    /\ exitStatus = -1
    /\ symbols \in {<<s>> : s \in RawSymbols}
    /\ file = NoFile
    /\ file0 = NoFile
    /\ old_prices = JMap(EmptyMap)
    /\ old_industries = JMap(EmptyMap)
    /\ industry_failed = FALSE
    /\ all_industries = EmptyMap
    /\ industries = EmptyMap
    /\ prices = EmptyMap
    /\ success = 0
    /\ i = 0
    /\ events = <<>>
    /\ fetchLog = <<>>
    /\ upstream \in Upstreams
    /\ lastFetch = NoFetch

StubFetch ==
    /\ pc = "stub"
    /\ lastFetch' = fetch_price(symbols[1], upstream)
    /\ pc' = "returned"
    /\ UNCHANGED <<raised, exitStatus, symbols, file, file0, old_prices, old_industries,
                   industry_failed, all_industries, industries, prices, success, i, events,
                   fetchLog, upstream>>

SpecFetch == InitFetch /\ [][StubFetch]_vars

\* ================================================================ claims
\* the previous snapshot as a reader of the specification understands it:
\* the mappings of a well-formed prices.json, nothing otherwise
PriorPrices == IF file0.kind = "object" /\ file0.prices.kind = "map"
               THEN file0.prices.m ELSE EmptyMap

PriorIndustries == IF file0.kind = "object" /\ file0.industries.kind = "map"
                   THEN file0.industries.m ELSE EmptyMap

\* the fetch_price calls made for symbol s that returned a price
FreshFetches(s) == {k \in DOMAIN fetchLog : fetchLog[k].sym = s /\ fetchLog[k].ok}

\* the number of fetch_price calls made for symbol s
Attempts(s) == Cardinality({k \in DOMAIN fetchLog : fetchLog[k].sym = s})

Count(q, e) == Cardinality({k \in DOMAIN q : q[k] = e})

LoopFinished == pc \in {"output", "dump", "done"}

\* C1: in the written snapshot every symbol of the resolved set has the price
\* a fetch_price call returned for it if one did, else the previous
\* snapshot's price if it has one, else no entry; no other key is written.
C1_PriceMerge ==
    pc = "done" =>
      LET written == file.prices.m IN
        /\ file.prices.kind = "map"
        /\ DOMAIN written \subseteq Range(symbols)
        /\ \A s \in Range(symbols) :
             IF FreshFetches(s) # {}
             THEN /\ s \in DOMAIN written
                  /\ \E k \in FreshFetches(s) : written[s] = fetchLog[k].price
             ELSE IF s \in DOMAIN PriorPrices
             THEN s \in DOMAIN written /\ written[s] = PriorPrices[s]
             ELSE s \notin DOMAIN written

C3_EmptyAborts ==
    (pc \notin {"load", "check", "stub", "returned"} /\ Len(symbols) = 0) =>
      /\ pc \in {"exited", "crashed"}
      /\ exitStatus # 0 /\ exitStatus # -1
      /\ file = file0
      /\ fetchLog = <<>>
      /\ events = <<>>

C3_Witness ==
    /\ pc = "exited"
    /\ exitStatus = ExitFailure
    /\ file0.kind = "object"
    /\ file = file0

\* C4: once the fetch loop has finished, every symbol of the resolved list
\* has had exactly one fetch_price call.
C4_ExactlyOneFetch ==
    LoopFinished => \A s \in Range(symbols) : Attempts(s) = 1

\* C5: the list load_stock_list returns has no duplicate entries and every
\* entry is its own uppercase form.
C5_UniqueUppercase ==
    pc = "check" =>
      /\ \A a, b \in DOMAIN symbols : a # b => symbols[a] # symbols[b]
      /\ \A k \in DOMAIN symbols : symbols[k] = Upper(symbols[k])

\* C6 as stated: against an upstream that reports a rate-limit error K times
\* and then succeeds, for every retry bound M fetch_price returns a price iff
\* K <= M after min(K, M) cooldown sleeps; any other error fails at once.
C6_RetryRule ==
    pc = "returned" =>
      /\ upstream.final = "ok" =>
           \A M \in 0..MaxRetries :
             /\ lastFetch.ok <=> upstream.K <= M
             /\ lastFetch.sleeps = IF upstream.K <= M THEN upstream.K ELSE M
      /\ (upstream.K = 0 /\ upstream.final = "error") =>
           ~lastFetch.ok /\ lastFetch.calls = 1 /\ lastFetch.sleeps = 0

\* C6 amended: fetch_price makes one upstream call and never sleeps: against
\* an upstream that reports a rate-limit error K times and then succeeds it
\* returns the scaled price iff K = 0, and every error, rate-limit or not,
\* is reported as failure at once.
C6_SingleAttempt ==
    pc = "returned" =>
      /\ lastFetch.calls = 1
      /\ lastFetch.sleeps = 0
      /\ lastFetch.sym = symbols[1]
      /\ lastFetch.ok <=> (upstream.K = 0 /\ upstream.final = "ok")
      /\ lastFetch.ok => lastFetch.price = upstream.raw * PriceScale

C6_Witness ==
    /\ pc = "returned"
    /\ upstream.K >= 1
    /\ upstream.final = "ok"
    /\ ~lastFetch.ok
    /\ lastFetch.sleeps = 0

\* C7: while the previous prices.json was a complete snapshot, the file on
\* disk is at every moment that snapshot or the complete new one.
C7_AllOrNothing ==
    file0.kind = "object" => (file = file0 \/ file = Snapshot(prices, industries))

\* a prices.json that is missing, not JSON, not an object, or whose `prices`
\* or `industries` is null or not a mapping
Malformed(f) ==
    \/ f.kind \in {"absent", "empty", "partial", "notjson", "nonobject"}
    \/ f.kind = "object" /\ f.prices.kind \in {"null", "list"}
    \/ f.kind = "object" /\ f.industries.kind \in {"null", "list"}

\* C8: a previous prices.json that is missing or malformed never stops the
\* run, and the snapshot written then holds the freshly fetched values only.
C8_MalformedIsEmpty ==
    Malformed(file0) =>
      /\ raised \notin {"old_prices:TypeError", "old_industries:TypeError"}
      /\ pc = "done" =>
           /\ \A s \in DOMAIN file.prices.m : FreshFetches(s) # {}
           /\ \A s \in DOMAIN file.industries.m : s \in DOMAIN all_industries

\* C9: a run that has ended has either exited with the failure status on an
\* empty symbol list or written the snapshot and ended with status zero.
C9_NoErrorEscapes ==
    exitStatus # -1 =>
      \/ pc = "exited" /\ Len(symbols) = 0 /\ exitStatus = ExitFailure
      \/ pc = "done" /\ exitStatus = 0 /\ file = Snapshot(prices, industries)

\* C10: fetches and delays alternate, starting with a fetch; the k-th fetch
\* is for the k-th symbol of the list; and when the loop over n >= 1 symbols
\* has finished there were n fetches and n - 1 delays, whatever the fetches
\* returned.
C10_Pacing ==
    /\ \A k \in DOMAIN events : events[k] = IF k % 2 = 1 THEN "fetch" ELSE "sleep"
    /\ Count(events, "fetch") = Len(fetchLog)
    /\ Len(fetchLog) <= Len(symbols)
    /\ \A k \in DOMAIN fetchLog : fetchLog[k].sym = symbols[k]
    /\ (LoopFinished /\ Len(symbols) >= 1) =>
         /\ Len(fetchLog) = Len(symbols)
         /\ Count(events, "sleep") = Len(symbols) - 1

C10_Witness ==
    /\ pc = "done"
    /\ Len(symbols) >= 2
    /\ \E k \in DOMAIN fetchLog : ~fetchLog[k].ok
    /\ Count(events, "sleep") = Len(symbols) - 1

====
